---- MODULE Spec2Model ----
(***************************************************************************)
(* Model of hnn/run.py: the simulation Runner (SimThread), the staged      *)
(* optimizer (OptThread) and their stop paths.  A behaviour is one run:    *)
(* either a plain simulation (a started SimThread) or an optimization (a   *)
(* started OptThread, which calls the run() of the SimThreads it creates   *)
(* in its own thread), while the GUI thread may call stop().               *)
(***************************************************************************)
EXTENDS Integers, Sequences, FiniteSets, TLC

\* ---------------------------------------------------------------- bounds
MaxCores == 5      \* largest worker count of a plain simulation
NumSteps == 2      \* num_steps of the optimization
MaxSims  == 2      \* largest num_sims of a step
MaxStops == 1      \* calls of stop() by the GUI thread
MaxProcs == 3      \* nrniv processes that may be running

\* ------------------------------------------------------ program constants
Penalty     == 1000000000   \* 1e9, returned by opt_sim for an invalid point
InitialBest == 1000000000   \* 1e9, best_step_werr set by OptThread.__init__
RelTolInv   == 1000000000   \* 1 / rel_tol of math.isclose (default 1e-9)
AbsTolInv   == 1000000000   \* 1 / abs_tol given to math.isclose (1e-9)

ParamNames == {"a", "b"}
PropVals   == 0..2          \* values the optimizer may propose
Errs       == {0, 1}        \* errors the scorer may return
OptCores   == {0, 1, 2}     \* worker counts of an optimization
\* texts of the RuntimeError that simulate() may raise
ErrTexts   == {"nrniv: cannot start", "mpiexec: no slots"}

NoVal == 0 - 1              \* an attribute that has not been assigned

VARIABLES
  pc,              \* position of the thread that executes run()
  ctx,             \* the caller that created the current SimThread
  is_optimization, \* mainwin.is_optimization
  ncore,           \* the configured worker count (self.ncore of the driver)
  params,          \* the shared parameter configuration (self.params)
  initial_params,  \* what optparamwin.get_initial_params() returns
  step,            \* loop variable of "for step in range(self.num_steps)"
  cur_step,        \* OptThread.cur_step
  cur_itr,         \* OptThread.cur_itr
  step_ranges,     \* OptThread.step_ranges, an ordered dict as a sequence
  step_sims,       \* OptThread.step_sims
  best_step_werr,  \* OptThread.best_step_werr
  num_params,      \* OptThread.num_params, the dimension given to nlopt.opt
  lb, ub, x0,      \* the lists lb, ub, opt_params built by optimize()
  numevals,        \* objective evaluations made by the current opt.optimize
  cur_x,           \* new_params of the current or last opt_sim call
  xbest, minf,     \* best point and value seen by the optimizer
  lastRet,         \* value returned by the last opt_sim call
  finals,          \* the 'final' entries stored after the last search
  initial_err,     \* OptThread.initial_err
  final_err,       \* final_err of OptThread._run
  chunk_ranges,    \* the mapping last given to optparamwin.push_chunk_ranges
  opt_killed,      \* OptThread.killed
  sim_running,     \* OptThread.sim_running
  has_sim,         \* self.sim_thread exists
  sim_ncore,       \* sim_thread.ncore
  sim_killed,      \* sim_thread.killed
  sim_result,      \* "none", "ok", or the text of the Runner's failure
  sim_done,        \* messages emitted on sim_thread.done_signal
  sim_emits,       \* signals emitted by sim_thread.run(), in their order
  attempts,        \* worker counts of the launches made by the SimThread
  entry_ncore,     \* worker count when SimThread._run was entered
  launch_params,   \* parameter set given to simulate() at the last launch
  launch_len,      \* duration simulate() ran for at the last launch
  sim_kills,       \* _kill_and_check_nrniv_procs calls by the SimThread
  prev_ncore,      \* ncore of the SimThread that the new one has just replaced
                   \* as sim_thread; NoVal once the new one runs
  sim_msgs,        \* _updatewaitsimwin calls by the SimThread
  in_sim_data,     \* sim_data.in_sim_data(paramfn): a result is stored
  inflight,        \* simulate() calls that have not returned or raised
  simlength,       \* the simlength argument of sim_thread.run
  stopPc,          \* position of the GUI thread inside stop()
  stopOnCurrent,   \* a SimThread.stop() call is under way on the object that
                   \* is still sim_thread
  stopInFlight,    \* stop() came while a simulate() call of a run() that has
                   \* not returned to its caller yet was in flight
  stopCalls,       \* calls of stop()
  stopAt,          \* where the driver was when stop() was called
  lastTxt,         \* last message sent to the wait-simulation window
  optDone,         \* messages emitted on OptThread.done_signal
  outcome,         \* "none", "accepted", "reverted"
  confirmSims      \* SimThreads created by the revert path

\* one call of _kill_and_check_nrniv_procs
VARIABLES
  kpc,             \* position inside the call ("idle": no call is modelled)
  live,            \* the nrniv processes that are running
  procs,           \* procs of _kill_and_check_nrniv_procs
  term_called,     \* processes on which p.terminate() was called
  kill_called,     \* processes on which p.kill() was called
  alive1,          \* alive as assigned by the first wait_procs
  alive2,          \* alive as assigned by the second wait_procs
  running,         \* what _kill_list_of_procs returned to its caller
  kill_error       \* "ERROR: failed to kill nrniv process(es)" was printed

\* the loop that stores the 'final' values, applied to values of any size
VARIABLES
  fpc,             \* "idle": not followed, "returned": search returned, "stored"
  f_ranges,        \* step_ranges of the step
  opt_results,     \* what run_opt_step returned
  f_finals         \* the 'final' entries the loop stored

\* the error requests of the driver, followed step by step
VARIABLES
  err_queue,       \* the Queue object the local name err_queue is bound to
  err_queues,      \* the content of each Queue object
  err_pending,     \* requests emitted on get_err_from_sim_data, not served
  err_chan,        \* the Queue object emitted with each request so far
  err_written,     \* the values written for each request
  err_read         \* the values the driver read for each request

vars == << pc, ctx, is_optimization, ncore, params, initial_params, step,
           cur_step, cur_itr, step_ranges, step_sims, best_step_werr,
           num_params, lb, ub, x0, numevals, cur_x, xbest, minf, lastRet,
           finals, initial_err, final_err, chunk_ranges, opt_killed, sim_running, has_sim,
           sim_ncore, sim_killed, sim_result, sim_done, sim_emits, attempts,
           entry_ncore, launch_params, launch_len, sim_kills, prev_ncore, sim_msgs, in_sim_data, inflight, simlength, stopPc,
           stopOnCurrent, stopInFlight,
           stopCalls, stopAt, lastTxt, optDone, outcome,
           confirmSims,
           kpc, live, procs, term_called, kill_called, alive1, alive2,
           running, kill_error,
           fpc, f_ranges, opt_results, f_finals,
           err_queue, err_queues, err_pending, err_chan, err_written,
           err_read >>

\* groups used in UNCHANGED
cfgVars  == << is_optimization, ncore, initial_params >>
simVars  == << has_sim, sim_ncore, sim_killed, sim_result, sim_done, sim_emits,
               attempts, entry_ncore, launch_params, launch_len, sim_kills, prev_ncore, sim_msgs, in_sim_data, inflight, simlength,
               ctx, sim_running, stopOnCurrent, stopInFlight, confirmSims >>
stopVars == << stopPc, stopCalls, stopAt, opt_killed >>
stepVars == << step, cur_step, step_ranges, step_sims, num_params, lb, ub,
               x0, finals >>
evalVars == << numevals, cur_x, xbest, minf, lastRet, cur_itr,
               best_step_werr >>
endVars  == << initial_err, final_err, outcome, chunk_ranges >>
procVars == << kpc, live, procs, term_called, kill_called, alive1, alive2,
               running, kill_error >>
finalVars == << fpc, f_ranges, opt_results, f_finals >>
errVars  == << err_queue, err_queues, err_pending, err_chan, err_written,
               err_read >>
\* the variables of the run
runVars  == << pc, params, lastTxt, optDone, cfgVars, simVars, stopVars,
               stepVars, evalVars, endVars >>

Min(a, b) == IF a < b THEN a ELSE b
Max(a, b) == IF a > b THEN a ELSE b
Abs(a)    == IF a < 0 THEN -a ELSE a

\* ---------------------------------------------------------------- ranges
Range(n, i, lo, hi) ==
  [name |-> n, initial |-> i, minval |-> lo, maxval |-> hi]

\* what optparamwin.get_chunk_ranges(step) and get_sims_for_chunk(step) may
\* return for a step: the ordered dict of ranges and the number of sims
StepChoices ==
  { [ranges |-> << >>, sims |-> 1],
    [ranges |-> << Range("a", 1, 0, 1) >>, sims |-> 0],
    [ranges |-> << Range("b", 2, 2, 2) >>, sims |-> 1],
    [ranges |-> << Range("a", 1, 0, 1), Range("b", 2, 2, 2) >>, sims |-> 1],
    [ranges |-> << Range("b", 1, 1, 1), Range("a", 1, 0, 2) >>, sims |-> 1],
    [ranges |-> << Range("a", 1, 0, 2), Range("b", 2, 1, 2) >>, sims |-> 2] }
  \cup { [ranges |-> << Range("a", 1, 0, 1) >>, sims |-> n] : n \in 1..MaxSims }

\* optimize(): "if upper == lower: continue"
Degenerate(r) == r.maxval = r.minval

RECURSIVE SearchedFrom(_, _)
\* the entries of params_input that optimize() puts into ub, lb, opt_params
SearchedFrom(ranges, k) ==
  IF k > Len(ranges) THEN << >>
  ELSE IF Degenerate(ranges[k])
       THEN SearchedFrom(ranges, k + 1)
       ELSE << ranges[k] >> \o SearchedFrom(ranges, k + 1)

Searched(ranges) == SearchedFrom(ranges, 1)

\* ------------------------------------------------- SimThread._run helpers
\* a Runner that refuses to start with a single worker as well
NoCores_le1(n) == n <= 1

\* "if self.ncore == 0" at the head of the retry loop
NoCores(n) == n = 0

\* a test for the last core that compares with 0
CannotReduce_zero(n) == n = 0

\* "if self.ncore == 1": the worker count cannot be reduced any more
CannotReduce(n) == n = 1

\* "simulate(self.params, self.ncore)": the simlength argument of _run is
\* not handed on, the simulation runs for the tstop of the parameter set
SimDuration(sl) == "tstop"

\* halving that rounds down
NextNcore_floor(n) == n \div 2

\* "self.ncore = ceil(self.ncore / 2)"
NextNcore(n) == (n + 1) \div 2

\* a retry message that names twice the new worker count
RetryTxt_before(n) ==
  "INFO: Failed starting simulation, retrying with "
    \o ToString(2 * n) \o " cores"

\* txt of the retry, "... retrying with %d cores" % self.ncore, where n is
\* self.ncore after the halving
RetryTxt(n) ==
  "INFO: Failed starting simulation, retrying with "
    \o ToString(n) \o " cores"

\* --------------------------------------------------- OptThread helpers
\* a bounds test that rejects the bounds themselves
InRange_strict(v, lo, hi) == v > lo /\ v < hi

\* the bounds test of opt_sim for one parameter
InRange(v, lo, hi) == v >= lo /\ v <= hi

RECURSIVE ZipInBounds(_, _, _)
\* opt_sim's loop over zip(step_ranges.keys(), new_params): TRUE when it
\* runs to its end, FALSE when it returns 1e9 at some parameter
ZipInBounds(ranges, x, k) ==
  IF k > Min(Len(ranges), Len(x)) THEN TRUE
  ELSE IF InRange(x[k], ranges[k].minval, ranges[k].maxval)
       THEN ZipInBounds(ranges, x, k + 1)
       ELSE FALSE

\* a dict that keeps each parameter's initial value instead of the proposal
OptParams_initial(ranges, x) ==
  LET n == Min(Len(ranges), Len(x))
  IN  [p \in {ranges[k].name : k \in 1..n} |->
         ranges[CHOOSE k \in 1..n : ranges[k].name = p].initial]

\* the dict opt_params that opt_sim builds from the zip
OptParams(ranges, x) ==
  LET n == Min(Len(ranges), Len(x))
  IN  [p \in {ranges[k].name : k \in 1..n} |->
         x[CHOOSE k \in 1..n : ranges[k].name = p]]

\* baseparamwin.update_gui_params(d): d's values go into the configuration
update_gui_params(cfg, d) ==
  [p \in DOMAIN cfg |-> IF p \in DOMAIN d THEN d[p] ELSE cfg[p]]

\* math.isclose(a, b, abs_tol=1e-9), with its default rel_tol of 1e-9:
\* |a-b| <= max(rel_tol * max(|a|,|b|), abs_tol), both sides times 1e9
IsClose(a, b) ==
  Abs(a - b) * RelTolInv
    <= Max(Max(Abs(a), Abs(b)), RelTolInv \div AbsTolInv)

\* the 'final' entries after "for var_name, new_value in zip(step_ranges,
\* opt_results)": entry k has no 'final' when the zip ended before it
Finals(ranges, res) ==
  [k \in 1..Len(ranges) |->
     IF k > Len(res) THEN NoVal
     ELSE IF ~IsClose(ranges[k].initial, res[k]) THEN res[k]
          ELSE ranges[k].initial]

\* a mapping that carries every key of step_ranges with its 'initial'
PushValues_initial(ranges, fin) ==
  [p \in {ranges[k].name : k \in 1..Len(ranges)} |->
     ranges[CHOOSE k \in 1..Len(ranges) : ranges[k].name = p].initial]

\* push_values: every key of step_ranges with its 'final'
PushValues(ranges, fin) ==
  [p \in {ranges[k].name : k \in 1..Len(ranges)} |->
     fin[CHOOSE k \in 1..Len(ranges) : ranges[k].name = p]]

\* a comparison that reverts on a tie as well
ShouldRevert_ge(ferr, ierr) == ferr >= ierr

\* "if final_err > self.initial_err"
ShouldRevert(ferr, ierr) == ferr > ierr

\* a revert that leaves the optimized values in place
RevertedParams_kept(cfg, init) == cfg

\* the configuration after update_gui_params(get_initial_params())
RevertedParams(cfg, init) == update_gui_params(cfg, init)

\* an initial simulation whether or not a result is stored
NeedInitialSim_always(has) == TRUE

\* get_initial_data: "if not self.sim_data.in_sim_data(self.paramfn)"
NeedInitialSim(has) == ~has

\* a loop over the steps that ends one step early
LoopDone_early(s) == s >= NumSteps - 1

\* "for step in range(self.num_steps)" has no further step
LoopDone(s) == s = NumSteps

\* "if werr < self.best_step_werr"
NewBest(werr, best) == werr < best

\* a skip test that lets a step without simulations through
SkipSims_negative(sims) == sims < 0

\* the skip tests at the head of a step
SkipSims(sims) == sims = 0
SkipParams(ranges) == Len(ranges) = 0

\* "self.num_params = len(self.step_ranges)", the dimension of nlopt.opt
OptDimension(ranges) == Len(ranges)

\* nlopt's set_lower_bounds, set_upper_bounds and optimize reject a list
\* whose length is not the optimizer's dimension (ValueError)
DimensionMismatch(dim, list) == Len(list) # dim

\* a driver that starts the SimThread and goes on while it runs
RunReturned_started(p) == p \in {"sim_returned", "sim_inflight"}

\* "self.sim_thread.run()" is an ordinary call: the driver goes on when
\* SimThread.run has returned
RunReturned(p) == p = "sim_returned"

Terminal == pc \in {"done", "crashed"}
InRunner == pc \in {"sim_created", "sim_loop", "sim_inflight", "sim_returned"}
\* the driver is inside a step's search (run_opt_step .. opt.optimize)
InStep == \/ pc \in {"opt_setup", "opt_loop", "score"}
          \/ (InRunner /\ ctx = "opt")

\* ------------------------------------------------------------------ Init
\* After construction and start(): an OptThread at the head of run(), or a
\* SimThread at the head of its own run().
InitRun ==
  /\ is_optimization \in BOOLEAN
  /\ ncore \in (IF is_optimization THEN OptCores ELSE 0..MaxCores)
  /\ pc = IF is_optimization THEN "start" ELSE "sim_created"
  /\ ctx = IF is_optimization THEN "none" ELSE "plain"
  /\ has_sim = ~is_optimization
  /\ sim_ncore = IF is_optimization THEN 0 ELSE ncore
  /\ entry_ncore = IF is_optimization THEN 0 ELSE ncore
  /\ params = [p \in ParamNames |-> IF p = "a" THEN 1 ELSE 2]
  /\ initial_params = params
  /\ launch_params = params
  /\ launch_len = "none"
  /\ step = 0
  /\ cur_step = NoVal
  /\ cur_itr = 0
  /\ step_ranges = << >>
  /\ step_sims = 0
  /\ best_step_werr = InitialBest
  /\ num_params = 0
  /\ lb = << >> /\ ub = << >> /\ x0 = << >>
  /\ numevals = 0
  /\ cur_x = << >>
  /\ xbest = << >> /\ minf = NoVal
  /\ lastRet = NoVal
  /\ finals = << >>
  /\ initial_err = NoVal
  /\ final_err = NoVal
  /\ chunk_ranges = << >>
  /\ opt_killed = FALSE
  /\ sim_running = FALSE
  /\ sim_killed = FALSE
  /\ sim_result = "none"
  /\ sim_done = << >>
  /\ sim_emits = << >>
  /\ attempts = << >>
  /\ sim_kills = 0
  /\ prev_ncore = NoVal
  /\ sim_msgs = 0
  /\ in_sim_data \in (IF is_optimization THEN BOOLEAN ELSE {FALSE})
  /\ inflight = 0
  /\ simlength = "None"
  /\ stopPc = "idle"
  /\ stopOnCurrent = FALSE
  /\ stopInFlight = FALSE
  /\ stopCalls = 0
  /\ stopAt = "none"
  /\ lastTxt = ""
  /\ optDone = << >>
  /\ outcome = "none"
  /\ confirmSims = 0

\* no call of _kill_and_check_nrniv_procs is followed step by step
InitProcs(k, l) ==
  /\ kpc = k
  /\ live = l
  /\ procs = {}
  /\ term_called = {}
  /\ kill_called = {}
  /\ alive1 = {}
  /\ alive2 = {}
  /\ running = {}
  /\ kill_error = FALSE

\* the stand-alone application of the 'final' loop is not followed
InitFinals(k, r, res) ==
  /\ fpc = k
  /\ f_ranges = r
  /\ opt_results = res
  /\ f_finals = << >>

\* the two error requests of an optimization run, by the data they ask for
ErrRequests == {"initial", "final"}

\* no Queue has been created and no request has been emitted
InitErrs ==
  /\ err_queue = "none"
  /\ err_queues = [q \in ErrRequests |-> << >>]
  /\ err_pending = << >>
  /\ err_chan = [r \in ErrRequests |-> "none"]
  /\ err_written = [r \in ErrRequests |-> << >>]
  /\ err_read = [r \in ErrRequests |-> << >>]

Init ==
  /\ InitRun
  /\ InitProcs("idle", {})
  /\ InitFinals("idle", << >>, << >>)
  /\ InitErrs

\* ------------------------------------------------------------ SimThread
\* a new SimThread that takes over the worker count the one before it
\* ended with
NewSimNcore_carried(n, old) == IF old >= 1 THEN old ELSE n

\* "SimThread(self.ncore, ...)": the new SimThread gets the worker count of
\* the driver, whatever the SimThread before it (old) ended with
NewSimNcore(n, old) == n

\* SimThread(self.ncore, self.params, ...) by caller c, then
\* "self.sim_running = True"
CreateSim(c) ==
  /\ has_sim' = TRUE
  /\ sim_ncore' = NewSimNcore(ncore, sim_ncore)
  /\ sim_killed' = FALSE
  /\ sim_result' = "none"
  /\ sim_done' = << >>
  /\ sim_emits' = << >>
  /\ attempts' = << >>
  /\ entry_ncore' = ncore
  /\ sim_kills' = 0
  /\ prev_ncore' = IF has_sim THEN sim_ncore ELSE NoVal
  /\ sim_msgs' = 0
  /\ simlength' = IF c = "opt" THEN "opt_end" ELSE "None"
  /\ stopOnCurrent' = FALSE
  /\ stopInFlight' = FALSE
  /\ confirmSims' = IF c = "final" THEN confirmSims + 1 ELSE confirmSims
  /\ ctx' = c
  /\ sim_running' = TRUE
  /\ pc' = "sim_created"
  /\ UNCHANGED << launch_params, launch_len, inflight, in_sim_data >>

\* SimThread.run when _run raised RuntimeError(msg): done_signal.emit(msg)
RunFailed(msg) ==
  /\ sim_result' = msg
  /\ sim_done' = Append(sim_done, msg)
  /\ sim_emits' = Append(sim_emits, "done")
  /\ pc' = IF is_optimization THEN "sim_returned" ELSE "done"

\* SimThread.run when _run returned: the result was emitted ("results are
\* in self.sim_data now"); outside an optimization the parameters and an
\* empty done message follow
RunSucceeded ==
  /\ sim_result' = "ok"
  /\ in_sim_data' = TRUE
  /\ sim_done' = IF is_optimization THEN sim_done ELSE Append(sim_done, "")
  /\ sim_emits' = IF is_optimization
                  THEN Append(sim_emits, "result")
                  ELSE sim_emits \o << "result", "params", "done" >>
  /\ pc' = IF is_optimization THEN "sim_returned" ELSE "done"

\* run() -> _run(): "self.killed = False"
SimRunEnter ==
  /\ pc = "sim_created"
  /\ sim_killed' = FALSE
  /\ entry_ncore' = sim_ncore
  /\ prev_ncore' = NoVal
  /\ pc' = "sim_loop"
  /\ UNCHANGED << procVars, finalVars, errVars >>
  /\ UNCHANGED << cfgVars, params, stepVars, evalVars, endVars, stopVars,
                  has_sim, simlength, sim_ncore, sim_result, sim_done, sim_emits, attempts,
                  launch_params, launch_len, sim_kills, sim_msgs, in_sim_data, inflight, ctx, sim_running, stopOnCurrent, stopInFlight,
                  confirmSims, lastTxt, optDone >>

\* head of the retry loop: no cores, or simulate(self.params, self.ncore)
SimLoopHead ==
  /\ pc = "sim_loop"
  /\ IF NoCores(sim_ncore)
     THEN /\ RunFailed("No cores available for simulation")
          /\ UNCHANGED << attempts, launch_params, launch_len, inflight >>
     ELSE /\ attempts' = Append(attempts, sim_ncore)
          /\ launch_params' = params
          /\ launch_len' = SimDuration(simlength)
          /\ inflight' = inflight + 1
          /\ pc' = "sim_inflight"
          /\ UNCHANGED << sim_result, sim_done, sim_emits >>
  /\ UNCHANGED << procVars, finalVars, errVars >>
  /\ UNCHANGED << cfgVars, params, stepVars, evalVars, endVars, stopVars,
                  has_sim, simlength, sim_ncore, sim_killed, entry_ncore, sim_kills, prev_ncore, sim_msgs, in_sim_data,
                  ctx, sim_running, stopOnCurrent, stopInFlight, confirmSims, lastTxt,
                  optDone >>

\* simulate() returned
SimSucceed ==
  /\ pc = "sim_inflight"
  /\ RunSucceeded
  /\ inflight' = inflight - 1
  /\ UNCHANGED << procVars, finalVars, errVars >>
  /\ UNCHANGED << cfgVars, params, stepVars, evalVars, endVars, stopVars,
                  has_sim, simlength, sim_ncore, sim_killed, attempts, entry_ncore,
                  launch_params, launch_len, sim_kills, prev_ncore, sim_msgs, ctx, sim_running, stopOnCurrent, stopInFlight,
                  confirmSims, lastTxt, optDone >>

\* simulate() raised RuntimeError(e): at one core print(str(e)),
\* _updatewaitsimwin(str(e)), _kill_and_check_nrniv_procs() and the raise;
\* otherwise the test of self.killed, then the halving and its message
SimFail ==
  /\ pc = "sim_inflight"
  /\ inflight' = inflight - 1
  /\ \E e \in ErrTexts :
       IF CannotReduce(sim_ncore)
          THEN /\ lastTxt' = e
               /\ sim_msgs' = sim_msgs + 1
               /\ sim_kills' = sim_kills + 1
               /\ RunFailed("Simulation failed to start")
               /\ UNCHANGED << sim_ncore, prev_ncore >>
          ELSE IF sim_killed
          THEN /\ RunFailed("Terminated")
               /\ UNCHANGED << sim_ncore, sim_kills, prev_ncore, sim_msgs, lastTxt >>
          ELSE /\ sim_ncore' = NextNcore(sim_ncore)
               /\ lastTxt' = RetryTxt(NextNcore(sim_ncore))
               /\ sim_msgs' = sim_msgs + 1
               /\ pc' = "sim_loop"
               /\ UNCHANGED << sim_result, sim_done, sim_emits, sim_kills, prev_ncore >>
  /\ UNCHANGED << procVars, finalVars, errVars >>
  /\ UNCHANGED << cfgVars, params, stepVars, evalVars, endVars, stopPc,
                  stopCalls, stopAt, opt_killed, has_sim, simlength, sim_killed,
                  attempts, entry_ncore, launch_params, launch_len, ctx, sim_running,
                  stopOnCurrent, stopInFlight, confirmSims, optDone, in_sim_data >>

\* simulate() raised something that is no RuntimeError: it passes through
\* _run and SimThread.run.  In an optimization the caller turns it into
\* RuntimeError("Failed to run ... simulation"), which OptThread.run emits
\* as the done message; a plain SimThread ends without a done message.
SimOtherError ==
  /\ pc = "sim_inflight"
  /\ sim_result' = "exception"
  /\ inflight' = inflight - 1
  /\ IF is_optimization
     THEN /\ optDone' = Append(optDone, "Failed to run simulation")
          /\ pc' = "done"
     ELSE /\ pc' = "crashed"
          /\ UNCHANGED optDone
  /\ UNCHANGED << procVars, finalVars, errVars >>
  /\ UNCHANGED << cfgVars, params, stepVars, evalVars, endVars, stopVars,
                  has_sim, simlength, sim_ncore, sim_killed, sim_done, sim_emits, attempts,
                  entry_ncore, launch_params, launch_len, sim_kills, prev_ncore, sim_msgs, in_sim_data, ctx, sim_running,
                  stopOnCurrent, stopInFlight, confirmSims, lastTxt >>

\* ------------------------------------------------------------ OptThread
\* OptThread.run -> _run -> get_initial_data: a full-length simulation when
\* sim_data holds no result for the parameter file
GetInitialData ==
  /\ pc = "start"
  /\ IF NeedInitialSim(in_sim_data)
     THEN /\ lastTxt' = "Running a simulation with initial parameter set"
          /\ CreateSim("initial")
     ELSE /\ pc' = "init_err"
          /\ UNCHANGED << simVars, lastTxt >>
  /\ UNCHANGED << procVars, finalVars, errVars >>
  /\ UNCHANGED << cfgVars, params, stepVars, evalVars, endVars, stopVars,
                  optDone >>

\* the caller after sim_thread.run() returned: wait(), "if self.killed:
\* self.quit()" (quit() only ends an event loop, and run() has none),
\* "self.sim_running = False"; after the confirmation simulation _run
\* returns and OptThread.run emits the done message
AfterSim ==
  /\ RunReturned(pc)
  /\ sim_running' = FALSE
  /\ stopInFlight' = FALSE
  /\ IF ctx = "initial" THEN pc' = "init_err" /\ UNCHANGED optDone
     ELSE IF ctx = "opt" THEN pc' = "score" /\ UNCHANGED optDone
     ELSE pc' = "done" /\ optDone' = Append(optDone, "")
  /\ UNCHANGED << procVars, finalVars, errVars >>
  /\ UNCHANGED << cfgVars, params, stepVars, evalVars, endVars, stopVars,
                  has_sim, simlength, sim_ncore, sim_killed, sim_result, sim_done, sim_emits,
                  attempts, entry_ncore, launch_params, launch_len, sim_kills, prev_ncore, sim_msgs, in_sim_data, inflight, ctx,
                  stopOnCurrent, confirmSims, lastTxt >>

\* get_initial_data: "self.initial_err = err_queue.get()"
InitErr ==
  /\ pc = "init_err"
  /\ \E e \in Errs : initial_err' = e
  /\ step' = 0
  /\ pc' = "step_start"
  /\ UNCHANGED << procVars, finalVars, errVars >>
  /\ UNCHANGED << cfgVars, params, cur_step, step_ranges, step_sims,
                  num_params, lb, ub, x0, finals, evalVars, final_err,
                  outcome, chunk_ranges, stopVars, simVars, lastTxt, optDone >>

\* one iteration of "for step in range(self.num_steps)" up to the call of
\* opt.set_lower_bounds: the skip tests, run_opt_step and the lists of
\* optimize()
StepStart ==
  /\ pc = "step_start"
  /\ ~LoopDone(step)
  /\ cur_step' = step
  /\ \E c \in StepChoices :
     LET r == c.ranges
         n == c.sims
     IN
       /\ step_ranges' = r
       /\ step_sims' = n
       /\ IF SkipSims(n)
          THEN /\ lastTxt' = "Skipping optimization step (0 simulations)"
               /\ step' = step + 1
               /\ UNCHANGED << pc, cur_itr, num_params, lb, ub, x0 >>
          ELSE IF SkipParams(r)
          THEN /\ lastTxt' = "Skipping optimization step (0 parameters)"
               /\ step' = step + 1
               /\ UNCHANGED << pc, cur_itr, num_params, lb, ub, x0 >>
          ELSE /\ lastTxt' = "Optimizing from"
               /\ cur_itr' = 0
               /\ num_params' = OptDimension(r)
               /\ lb' = [k \in 1..Len(Searched(r)) |-> Searched(r)[k].minval]
               /\ ub' = [k \in 1..Len(Searched(r)) |-> Searched(r)[k].maxval]
               /\ x0' = [k \in 1..Len(Searched(r)) |-> Searched(r)[k].initial]
               /\ pc' = "opt_setup"
               /\ UNCHANGED step
  /\ UNCHANGED << procVars, finalVars, errVars >>
  /\ UNCHANGED << cfgVars, params, finals, numevals, cur_x, xbest, minf,
                  lastRet, best_step_werr, endVars, stopVars, simVars,
                  optDone >>

\* opt.set_lower_bounds(lb), set_upper_bounds(ub), ..., opt.optimize(x0):
\* a list of the wrong length raises ValueError, which OptThread.run does
\* not catch, so the thread ends without a done message
SetBounds ==
  /\ pc = "opt_setup"
  /\ IF \/ DimensionMismatch(num_params, lb)
        \/ DimensionMismatch(num_params, ub)
        \/ DimensionMismatch(num_params, x0)
     THEN pc' = "crashed"
     ELSE pc' = "opt_loop"
  /\ UNCHANGED << procVars, finalVars, errVars >>
  /\ UNCHANGED << cfgVars, params, stepVars, evalVars, endVars, stopVars,
                  simVars, lastTxt, optDone >>

\* an evaluation limit that lets one more evaluation through
MaxevalReached_after(n, maxeval) == n > maxeval

\* "self.opt.set_maxeval(num_sims)": the optimizer stops calling the
\* objective once it has made maxeval evaluations
MaxevalReached(n, maxeval) == n >= maxeval

\* the optimizer keeps the point with the lowest objective value
NloptBest(x, f) ==
  IF minf = NoVal \/ f < minf
  THEN xbest' = x /\ minf' = f
  ELSE UNCHANGED << xbest, minf >>

\* the points opt.optimize(x0) may hand to the objective: the first
\* evaluation is at the initial vector
Proposals ==
  IF numevals = 0 THEN {x0} ELSE [1..num_params -> PropVals]

\* the optimizer calls opt_sim(new_params): the bounds test, then
\* update_gui_params(opt_params) and a new SimThread
OptEval ==
  /\ pc = "opt_loop"
  /\ ~MaxevalReached(numevals, step_sims)
  /\ numevals' = numevals + 1
  /\ lastTxt' = "Optimization step, simulation"
  /\ \E x \in Proposals :
       /\ cur_x' = x
       /\ IF ~ZipInBounds(step_ranges, x, 1)
          THEN /\ lastRet' = Penalty
               /\ NloptBest(x, Penalty)
               /\ UNCHANGED << pc, params, simVars >>
          ELSE /\ params' = update_gui_params(params,
                                              OptParams(step_ranges, x))
               /\ CreateSim("opt")
               /\ UNCHANGED << lastRet, xbest, minf >>
  /\ UNCHANGED << procVars, finalVars, errVars >>
  /\ UNCHANGED << cfgVars, stepVars, cur_itr, best_step_werr, endVars,
                  stopVars, optDone >>

\* opt_sim after the simulation: get_werr, the best-so-far update,
\* "self.cur_itr += 1", "return werr"
Score ==
  /\ pc = "score"
  /\ \E werr \in Errs :
       /\ lastRet' = werr
       /\ NloptBest(cur_x, werr)
       /\ IF NewBest(werr, best_step_werr)
          THEN best_step_werr' = werr /\ lastTxt' = "new best with RMSE"
          ELSE UNCHANGED best_step_werr /\ lastTxt' = "Simulation finished"
  /\ cur_itr' = cur_itr + 1
  /\ pc' = "opt_loop"
  /\ UNCHANGED << procVars, finalVars, errVars >>
  /\ UNCHANGED << cfgVars, params, stepVars, numevals, cur_x, endVars,
                  stopVars, simVars, optDone >>

\* opt.optimize returns (maxeval reached or converged); the 'final' values
\* are stored and pushed; a key without 'final' raises KeyError
OptReturn ==
  /\ pc = "opt_loop"
  /\ numevals >= 1
  /\ finals' = Finals(step_ranges, xbest)
  /\ IF \E k \in 1..Len(step_ranges) : finals'[k] = NoVal
     THEN pc' = "crashed" /\ UNCHANGED << params, step, chunk_ranges >>
     ELSE /\ params' = update_gui_params(params,
                                         PushValues(step_ranges, finals'))
          /\ chunk_ranges' = PushValues(step_ranges, finals')
          /\ step' = step + 1
          /\ pc' = "step_start"
  /\ numevals' = 0
  /\ cur_x' = << >>
  /\ xbest' = << >>
  /\ minf' = NoVal
  /\ lastRet' = NoVal
  /\ UNCHANGED << procVars, finalVars, errVars >>
  /\ UNCHANGED << cfgVars, cur_step, step_ranges, step_sims, num_params, lb,
                  ub, x0, cur_itr, best_step_werr, initial_err, final_err,
                  outcome,
                  stopVars, simVars, lastTxt, optDone >>

\* after the loop: "final_err = err_queue.get()", then the revert with its
\* full-length simulation, or the return of _run and the done message
Finalize ==
  /\ pc = "step_start"
  /\ LoopDone(step)
  /\ \E e \in Errs :
       /\ final_err' = e
       /\ IF ShouldRevert(e, initial_err)
          THEN /\ lastTxt' = "Warning: reverting to old parameters"
               /\ params' = RevertedParams(params, initial_params)
               /\ chunk_ranges' = initial_params
               /\ outcome' = "reverted"
               /\ CreateSim("final")
               /\ UNCHANGED optDone
          ELSE /\ outcome' = "accepted"
               /\ optDone' = Append(optDone, "")
               /\ pc' = "done"
               /\ UNCHANGED << params, chunk_ranges, simVars, lastTxt >>
  /\ UNCHANGED << procVars, finalVars, errVars >>
  /\ UNCHANGED << cfgVars, stepVars, evalVars, initial_err, stopVars >>

\* ----------------------------------------------------------------- stop
\* SimThread.stop, reached through "self.sim_thread.stop()" in an
\* optimization: _kill_and_check_nrniv_procs().  Without a sim_thread
\* attribute OptThread.stop raises AttributeError.
StopCall ==
  /\ stopPc = "idle"
  /\ stopCalls < MaxStops
  /\ ~Terminal
  /\ stopCalls' = stopCalls + 1
  /\ stopAt' = IF InStep THEN "step" ELSE "other"
  /\ IF ~has_sim
     THEN stopPc' = "error" /\ UNCHANGED << stopOnCurrent, stopInFlight >>
     ELSE /\ stopOnCurrent' = TRUE
          /\ stopInFlight' = (pc = "sim_inflight")
          /\ stopPc' = "killed"
  /\ UNCHANGED << procVars, finalVars, errVars >>
  /\ UNCHANGED << pc, cfgVars, params, stepVars, evalVars, endVars, has_sim, simlength,
                  sim_ncore, sim_killed, sim_result, sim_done, sim_emits, attempts,
                  entry_ncore, launch_params, launch_len, sim_kills, prev_ncore, sim_msgs, in_sim_data, inflight, ctx, sim_running,
                  confirmSims, opt_killed, lastTxt, optDone >>

\* SimThread.stop: "self.killed = True" on the object stop() was called on,
\* which is the last use SimThread.stop makes of it;
\* OptThread.stop goes on to terminate() and wait(), which act on a thread
\* that was never started
StopMarkSim ==
  /\ stopPc = "killed"
  /\ sim_killed' = IF stopOnCurrent THEN TRUE ELSE sim_killed
  /\ stopPc' = IF is_optimization THEN "marked" ELSE "idle"
  /\ stopOnCurrent' = FALSE
  /\ UNCHANGED << procVars, finalVars, errVars >>
  /\ UNCHANGED << pc, cfgVars, params, stepVars, evalVars, endVars, has_sim, simlength,
                  sim_ncore, sim_result, sim_done, sim_emits, attempts, entry_ncore,
                  launch_params, launch_len, sim_kills, prev_ncore, sim_msgs, in_sim_data, inflight, ctx, sim_running, stopInFlight,
                  confirmSims, stopCalls, stopAt, opt_killed,
                  lastTxt, optDone >>

\* OptThread.stop: "self.killed = True" and
\* done_signal.emit("Optimization terminated")
StopFinish ==
  /\ stopPc = "marked"
  /\ opt_killed' = TRUE
  /\ optDone' = Append(optDone, "Optimization terminated")
  /\ stopPc' = "idle"
  /\ UNCHANGED << procVars, finalVars, errVars >>
  /\ UNCHANGED << pc, cfgVars, params, stepVars, evalVars, endVars, simVars,
                  stopCalls, stopAt, lastTxt >>

Next ==
  \/ GetInitialData
  \/ SimRunEnter
  \/ SimLoopHead
  \/ SimSucceed
  \/ SimFail
  \/ SimOtherError
  \/ AfterSim
  \/ InitErr
  \/ StepStart
  \/ SetBounds
  \/ OptEval
  \/ Score
  \/ OptReturn
  \/ Finalize
  \/ StopCall
  \/ StopMarkSim
  \/ StopFinish

Spec == Init /\ [][Next]_vars

\* ------------------------------------- _kill_and_check_nrniv_procs
Procs == 1..MaxProcs

\* the next element of a list of processes: lists keep the order of
\* process_iter, here the order of the process numbers
NextProc(todo) == CHOOSE p \in todo : \A q \in todo : p <= q

\* whether a signal sent to p raises NoSuchProcess: p has exited
Gone(p) == p \notin live

\* a report that is made only for two or more survivors
ReportNeeded_several(r) == Cardinality(r) > 1

\* "if len(running) > 0": the ERROR line with the pids of running is printed
ReportNeeded(r) == Cardinality(r) > 0

\* a running nrniv process exits, of its own or because of a signal
ProcExit ==
  /\ kpc \in {"terminate", "wait1", "kill", "wait2"}
  /\ \E p \in live : live' = live \ {p}
  /\ UNCHANGED << kpc, procs, term_called, kill_called, alive1, alive2,
                  running, kill_error >>
  /\ UNCHANGED << runVars, finalVars, errVars >>

\* "procs = _get_nrniv_procs_running()" and "if len(procs) > 0"
KillEnumerate ==
  /\ kpc = "enumerate"
  /\ procs' = live
  /\ kpc' = IF Cardinality(live) > 0 THEN "terminate" ELSE "returned"
  /\ UNCHANGED << live, term_called, kill_called, alive1, alive2, running,
                  kill_error >>
  /\ UNCHANGED << runVars, finalVars, errVars >>

\* _kill_list_of_procs, "for p in procs: p.terminate()", where
\* NoSuchProcess is caught; after the loop the first wait_procs
KillTerminate ==
  /\ kpc = "terminate"
  /\ IF procs \ term_called # {}
     THEN /\ term_called' = term_called \cup {NextProc(procs \ term_called)}
          /\ UNCHANGED kpc
     ELSE /\ kpc' = "wait1"
          /\ UNCHANGED term_called
  /\ UNCHANGED << live, procs, kill_called, alive1, alive2, running,
                  kill_error >>
  /\ UNCHANGED << runVars, finalVars, errVars >>

\* "_, alive = wait_procs(procs, timeout=3)" returns: alive holds the
\* processes of procs that still run
KillWait1 ==
  /\ kpc = "wait1"
  /\ alive1' = procs \cap live
  /\ kpc' = "kill"
  /\ UNCHANGED << live, procs, term_called, kill_called, alive2, running,
                  kill_error >>
  /\ UNCHANGED << runVars, finalVars, errVars >>

\* "for p in alive: p.kill()": no NoSuchProcess is caught here, so a
\* process that exited after the wait ends the call with the exception
KillKill ==
  /\ kpc = "kill"
  /\ IF alive1 \ kill_called # {}
     THEN LET p == NextProc(alive1 \ kill_called)
          IN  /\ kill_called' = kill_called \cup {p}
              /\ kpc' = IF Gone(p) THEN "raised" ELSE "kill"
     ELSE /\ kpc' = "wait2"
          /\ UNCHANGED kill_called
  /\ UNCHANGED << live, procs, term_called, alive1, alive2, running,
                  kill_error >>
  /\ UNCHANGED << runVars, finalVars, errVars >>

\* the second "_, alive = wait_procs(procs, timeout=3)"
KillWait2 ==
  /\ kpc = "wait2"
  /\ alive2' = procs \cap live
  /\ kpc' = "check"
  /\ UNCHANGED << live, procs, term_called, kill_called, alive1, running,
                  kill_error >>
  /\ UNCHANGED << runVars, finalVars, errVars >>

\* "return alive", then "running = ..." and "if len(running) > 0: print"
KillCheck ==
  /\ kpc = "check"
  /\ running' = alive2
  /\ kill_error' = ReportNeeded(alive2)
  /\ kpc' = "returned"
  /\ UNCHANGED << live, procs, term_called, kill_called, alive1, alive2 >>
  /\ UNCHANGED << runVars, finalVars, errVars >>

\* one call of _kill_and_check_nrniv_procs, by a SimThread at one core,
\* with any set of nrniv processes running
InitCleanup ==
  /\ InitRun
  /\ ~is_optimization
  /\ ncore = 1
  /\ \E l \in SUBSET Procs : InitProcs("enumerate", l)
  /\ InitFinals("idle", << >>, << >>)
  /\ InitErrs

NextCleanup ==
  \/ ProcExit
  \/ KillEnumerate
  \/ KillTerminate
  \/ KillWait1
  \/ KillKill
  \/ KillWait2
  \/ KillCheck

SpecCleanup == InitCleanup /\ [][NextCleanup]_vars

\* ------------------------------- stop(), with its cleanup step by step
\* a cleanup that counts as returned as soon as it has been entered
CleanupReturned_entered(k) == k # "idle"

\* "_kill_and_check_nrniv_procs()" has returned to SimThread.stop, whose
\* next statement is "self.killed = True"
CleanupReturned(k) == k = "returned"

\* stop() is called: OptThread.stop reads self.sim_thread (AttributeError
\* without one), SimThread.stop enters _kill_and_check_nrniv_procs
StopEnter ==
  /\ stopPc = "idle"
  /\ stopCalls < MaxStops
  /\ ~Terminal
  /\ stopCalls' = stopCalls + 1
  /\ stopAt' = IF InStep THEN "step" ELSE "other"
  /\ IF ~has_sim
     THEN /\ stopPc' = "error"
          /\ UNCHANGED << stopOnCurrent, stopInFlight, procVars >>
     ELSE /\ stopOnCurrent' = TRUE
          /\ stopInFlight' = (pc = "sim_inflight")
          /\ stopPc' = "cleanup"
          /\ kpc' = "enumerate"
          /\ procs' = {}
          /\ term_called' = {}
          /\ kill_called' = {}
          /\ alive1' = {}
          /\ alive2' = {}
          /\ running' = {}
          /\ kill_error' = FALSE
          /\ UNCHANGED live
  /\ UNCHANGED << finalVars, errVars >>
  /\ UNCHANGED << pc, cfgVars, params, stepVars, evalVars, endVars, has_sim,
                  simlength, sim_ncore, sim_killed, sim_result, sim_done, sim_emits,
                  attempts, entry_ncore, launch_params, launch_len, sim_kills, prev_ncore, sim_msgs,
                  in_sim_data, inflight, ctx, sim_running, confirmSims,
                  opt_killed, lastTxt, optDone >>

\* the cleanup returns to SimThread.stop; when it raised, stop() is left
\* with the exception and nothing follows
StopCleanupDone ==
  /\ stopPc = "cleanup"
  /\ CleanupReturned(kpc)
  /\ stopPc' = "killed"
  /\ UNCHANGED << procVars, finalVars, errVars >>
  /\ UNCHANGED << pc, cfgVars, params, stepVars, evalVars, endVars, simVars,
                  stopCalls, stopAt, opt_killed, lastTxt, optDone >>

\* a thread that has been started, with any set of nrniv processes
\* running, on which stop() may be called
InitStop ==
  /\ InitRun
  /\ ncore = 1
  /\ \E l \in SUBSET Procs : InitProcs("idle", l)
  /\ InitFinals("idle", << >>, << >>)
  /\ InitErrs

NextStop ==
  \/ GetInitialData
  \/ StopEnter
  \/ ProcExit
  \/ KillEnumerate
  \/ KillTerminate
  \/ KillWait1
  \/ KillKill
  \/ KillWait2
  \/ KillCheck
  \/ StopCleanupDone
  \/ StopMarkSim
  \/ StopFinish

SpecStop == InitStop /\ [][NextStop]_vars

\* ------------------------------------------- the loop that stores 'final'
\* initial values of small and of large magnitude
InitialVals == {0, 1, 2, 1000000000, 2000000000}
\* how far an optimized value may lie from the initial value
ResultDiffs == {0 - 2, 0 - 1, 0, 1, 2}

\* the step_ranges of a step with two searched parameters
FinalRanges ==
  { << Range("a", i, i - 2, i + 2), Range("b", j, j - 2, j + 2) >> :
      i \in InitialVals, j \in InitialVals }

\* "for var_name, new_value in zip(self.step_ranges, opt_results)": the
\* 'final' entries are stored
StoreFinals ==
  /\ fpc = "returned"
  /\ f_finals' = Finals(f_ranges, opt_results)
  /\ fpc' = "stored"
  /\ UNCHANGED << f_ranges, opt_results >>
  /\ UNCHANGED << runVars, procVars, errVars >>

\* run_opt_step has returned a point within the bounds of the step
InitStore ==
  /\ InitRun
  /\ is_optimization
  /\ ncore = 1
  /\ ~in_sim_data
  /\ InitProcs("idle", {})
  /\ \E r \in FinalRanges :
       \E d \in [1..2 -> ResultDiffs] :
         InitFinals("returned", r, [k \in 1..2 |-> r[k].initial + d[k]])
  /\ InitErrs

NextStore == StoreFinals

SpecStore == InitStore /\ [][NextStore]_vars

\* ------------------------- the error requests, followed step by step
\* one Queue object that serves every request
QueueAt_shared(req) == "initial"

\* "err_queue = Queue()": every request creates a Queue object of its own,
\* named here by the request it is created for
QueueAt(req) == req

\* "err_queue = Queue()" and "get_err_from_sim_data.qsig.emit(err_queue,
\* self.paramfn, self.params['tstop'])"
ErrRequest(req) ==
  /\ err_queue' = QueueAt(req)
  /\ err_chan' = [err_chan EXCEPT ![req] = QueueAt(req)]
  /\ err_pending' = Append(err_pending,
                           [queue |-> QueueAt(req), request |-> req])
  /\ UNCHANGED << err_queues, err_written, err_read >>

\* "err_queue.get()": blocks while the queue is empty, then removes and
\* returns its first item
ErrGet(req) ==
  /\ Len(err_queues[err_queue]) > 0
  /\ err_queues' = [err_queues EXCEPT ![err_queue] = Tail(@)]
  /\ err_read' = [err_read EXCEPT
                    ![req] = Append(@, Head(err_queues[err_queue]))]
  /\ UNCHANGED << err_queue, err_pending, err_chan, err_written >>

\* get_initial_data: the two update signals, then the request for the
\* error of the initial data
InitErrRequest ==
  /\ pc = "init_err"
  /\ ErrRequest("initial")
  /\ pc' = "init_err_get"
  /\ UNCHANGED << procVars, finalVars >>
  /\ UNCHANGED << cfgVars, params, stepVars, evalVars, endVars, stopVars,
                  simVars, lastTxt, optDone >>

\* sim_data.get_err_wrapper, the slot of get_err_from_sim_data: it puts the
\* error computed for the request into the queue that came with it
ErrWrite ==
  /\ Len(err_pending) > 0
  /\ \E e \in Errs :
       LET rq == Head(err_pending)
       IN  /\ err_queues' = [err_queues EXCEPT ![rq.queue] = Append(@, e)]
           /\ err_written' = [err_written EXCEPT ![rq.request] = Append(@, e)]
  /\ err_pending' = Tail(err_pending)
  /\ UNCHANGED << err_queue, err_chan, err_read >>
  /\ UNCHANGED << runVars, procVars, finalVars >>

\* get_initial_data: "self.initial_err = err_queue.get()"
InitErrGet ==
  /\ pc = "init_err_get"
  /\ ErrGet("initial")
  /\ initial_err' = Head(err_queues[err_queue])
  /\ step' = 0
  /\ pc' = "step_start"
  /\ UNCHANGED << procVars, finalVars >>
  /\ UNCHANGED << cfgVars, params, cur_step, step_ranges, step_sims,
                  num_params, lb, ub, x0, finals, evalVars, final_err,
                  outcome, chunk_ranges, stopVars, simVars, lastTxt, optDone >>

\* after the loop: update_sim_data_from_opt_data, then the request for the
\* error of the optimized data
FinalErrRequest ==
  /\ pc = "step_start"
  /\ LoopDone(step)
  /\ ErrRequest("final")
  /\ pc' = "final_err_get"
  /\ UNCHANGED << procVars, finalVars >>
  /\ UNCHANGED << cfgVars, params, stepVars, evalVars, endVars, stopVars,
                  simVars, lastTxt, optDone >>

\* "final_err = err_queue.get()", then the revert with its full-length
\* simulation, or the return of _run and the done message
FinalizeGet ==
  /\ pc = "final_err_get"
  /\ ErrGet("final")
  /\ LET e == Head(err_queues[err_queue])
     IN  /\ final_err' = e
         /\ IF ShouldRevert(e, initial_err)
            THEN /\ lastTxt' = "Warning: reverting to old parameters"
                 /\ params' = RevertedParams(params, initial_params)
                 /\ chunk_ranges' = initial_params
                 /\ outcome' = "reverted"
                 /\ CreateSim("final")
                 /\ UNCHANGED optDone
            ELSE /\ outcome' = "accepted"
                 /\ optDone' = Append(optDone, "")
                 /\ pc' = "done"
                 /\ UNCHANGED << params, chunk_ranges, simVars, lastTxt >>
  /\ UNCHANGED << procVars, finalVars >>
  /\ UNCHANGED << cfgVars, stepVars, evalVars, initial_err, stopVars >>

\* an optimization run on which stop() is not called
InitErrRun ==
  /\ InitRun
  /\ is_optimization
  /\ InitProcs("idle", {})
  /\ InitFinals("idle", << >>, << >>)
  /\ InitErrs

NextErr ==
  \/ GetInitialData
  \/ SimRunEnter
  \/ SimLoopHead
  \/ SimSucceed
  \/ SimFail
  \/ SimOtherError
  \/ AfterSim
  \/ InitErrRequest
  \/ ErrWrite
  \/ InitErrGet
  \/ StepStart
  \/ SetBounds
  \/ OptEval
  \/ Score
  \/ OptReturn
  \/ FinalErrRequest
  \/ FinalizeGet

SpecErr == InitErrRun /\ [][NextErr]_vars

\* ======================================================================
\* Properties
\* ======================================================================
RunnerFailures == { "No cores available for simulation",
                    "Simulation failed to start",
                    "Terminated" }

\* the mathematical ceil(n/2), stated without the Runner's arithmetic
CeilHalf(n) == CHOOSE m \in 0..n : 2 * m >= n /\ 2 * (m - 1) < n

RECURSIVE HalvingSeq(_)
\* n, ceil(n/2), ceil(ceil(n/2)/2), ..., 1
HalvingSeq(n) ==
  IF n <= 1 THEN << n >> ELSE << n >> \o HalvingSeq(CeilHalf(n))

\* ceil(log2(n)) for n >= 1: the least k with 2^k >= n
CeilLog2(n) == CHOOSE k \in 0..n : 2^k >= n /\ \A j \in 0..(k - 1) : 2^j < n

IsPrefix(s, t) == Len(s) <= Len(t) /\ \A i \in 1..Len(s) : s[i] = t[i]

\* C1: entered with n >= 1 workers, the Runner launches with n, ceil(n/2),
\* ..., in that order; it raises "Simulation failed to start" only after
\* the whole sequence down to 1 has failed, which is ceil(log2(n))+1
\* launches; and when every launch fails and no cancellation was seen,
\* that is the failure it ends with.
C1_HalvingAttempts ==
  entry_ncore >= 1 =>
    /\ IsPrefix(attempts, HalvingSeq(entry_ncore))
    /\ sim_result = "Simulation failed to start" =>
         /\ attempts = HalvingSeq(entry_ncore)
         /\ Len(attempts) = CeilLog2(entry_ncore) + 1
         /\ attempts[Len(attempts)] = 1
    /\ (sim_result \in RunnerFailures /\ ~sim_killed) =>
         sim_result = "Simulation failed to start"

\* a Runner entered with the largest worker count has failed at every
\* count down to 1, with no stop requested
C1_Witness ==
  /\ entry_ncore = MaxCores
  /\ sim_result = "Simulation failed to start"
  /\ Len(attempts) >= 4
  /\ stopCalls = 0

\* C2: once the Runner launched by an objective evaluation has failed
\* terminally, the driver does nothing but end the run with a reported
\* message: the evaluation is not scored, the search does not go on and
\* no later step starts.
C2_FailureAbortsRun ==
  (is_optimization /\ ctx = "opt" /\ sim_result \in RunnerFailures) =>
    /\ pc \in {"sim_returned", "done"}
    /\ pc = "done" => (optDone # << >> /\ optDone[Len(optDone)] # "")

\* C3: after OptThread.stop() has been called during a step and has
\* returned, opt_sim creates and runs no new SimThread and no later step
\* is started.
C3_NoWorkAfterStop ==
  [][ (stopAt = "step" /\ opt_killed) =>
        /\ ~(pc = "opt_loop" /\ pc' = "sim_created" /\ ctx' = "opt")
        /\ cur_step' = cur_step ]_vars

\* C4: when stop() was called once during a step and has invoked
\* _kill_and_check_nrniv_procs, nothing invokes that routine again in the
\* rest of the run.
C4_KillOnce ==
  [][ (stopAt = "step" /\ stopCalls = 1 /\ stopPc # "error") =>
        sim_kills' <= sim_kills ]_vars

\* a proposed point with some searched parameter strictly outside its
\* [minval, maxval]
OutOfBounds(ranges, x) ==
  \E k \in 1..Min(Len(x), Len(Searched(ranges))) :
     \/ x[k] < Searched(ranges)[k].minval
     \/ x[k] > Searched(ranges)[k].maxval

\* C5: an objective evaluation returns the penalty 1e9 exactly when some
\* searched parameter's proposed value lies strictly outside its bounds,
\* and a SimThread is created by opt_sim only for a point within bounds
\* (the bounds themselves included).
C5_PenaltyOutOfBounds ==
  /\ (pc = "opt_loop" /\ numevals >= 1) =>
       (lastRet = Penalty <=> OutOfBounds(step_ranges, cur_x))
  /\ (ctx = "opt" /\ (InRunner \/ pc = "score")) =>
       ~OutOfBounds(step_ranges, cur_x)

\* an evaluation with a value below minval has returned the penalty
C5_Witness ==
  /\ pc = "opt_loop"
  /\ numevals >= 1
  /\ lastRet = Penalty
  /\ \E k \in 1..Len(cur_x) : cur_x[k] < step_ranges[k].minval

\* an evaluation at a bound of the range is being simulated
C5_WitnessBoundary ==
  /\ pc = "sim_inflight"
  /\ ctx = "opt"
  /\ numevals = 2
  /\ \E k \in 1..Len(cur_x) : cur_x[k] = step_ranges[k].maxval

SkipMessages == { "Skipping optimization step (0 simulations)",
                  "Skipping optimization step (0 parameters)" }

C7_SearchDimension ==
  pc = "opt_setup" =>
    LET n == Len(Searched(step_ranges))
    IN  num_params = n /\ Len(lb) = n /\ Len(ub) = n /\ Len(x0) = n

\* C8: the revert path is taken exactly when final_err > initial_err; it
\* creates exactly one further SimThread, run at full length after the
\* restore, and the accept path creates none and ends the run.
C8_RevertIffWorse ==
  /\ outcome = "reverted" => (final_err > initial_err /\ confirmSims = 1)
  /\ outcome = "accepted" =>
       (final_err <= initial_err /\ confirmSims = 0 /\ pc = "done")
  /\ outcome = "none" => (confirmSims = 0 /\ ctx # "final")
  /\ ctx = "final" =>
       (outcome = "reverted" /\ simlength = "None"
          /\ final_err > initial_err)

\* the confirmation simulation of a revert has completed
C8_Witness ==
  /\ outcome = "reverted"
  /\ pc = "done"
  /\ ctx = "final"
  /\ sim_result = "ok"

\* a run whose final_err equals initial_err has been accepted
C8_WitnessTie ==
  outcome = "accepted" /\ final_err = initial_err /\ pc = "done"

\* C9: after a revert every parameter of the shared configuration has its
\* pre-optimization value, and the confirmation simulation is launched
\* with that parameter set.
C9_RevertRestoresParams ==
  /\ outcome = "reverted" =>
       \A p \in ParamNames : params[p] = initial_params[p]
  /\ (ctx = "final" /\ attempts # << >>) => launch_params = initial_params

\* the confirmation simulation was launched after the last step had
\* stored a value that differs from the pre-optimization one
C9_Witness ==
  /\ outcome = "reverted"
  /\ ctx = "final"
  /\ attempts # << >>
  /\ step_sims > 0
  /\ Len(finals) = Len(step_ranges)
  /\ \E k \in 1..Len(finals) :
       finals[k] # initial_params[step_ranges[k].name]

\* C10: the no-cores failure arises only in a Runner entered with 0
\* workers, which then launches nothing; a Runner entered with n >= 1
\* workers never has a worker count of 0.
C10_NoCoresOnlyAtEntry ==
  /\ sim_result = "No cores available for simulation" =>
       (entry_ncore = 0 /\ attempts = << >>)
  /\ (has_sim /\ entry_ncore = 0) =>
       /\ attempts = << >>
       /\ pc # "sim_inflight"
       /\ sim_result \in {"none", "No cores available for simulation"}
  /\ (has_sim /\ entry_ncore >= 1) =>
       /\ sim_ncore >= 1
       /\ \A i \in 1..Len(attempts) : attempts[i] >= 1
       /\ sim_result # "No cores available for simulation"

\* a Runner entered with 0 workers has failed without a launch
C10_Witness ==
  /\ sim_result = "No cores available for simulation"
  /\ entry_ncore = 0
  /\ attempts = << >>

\* a Runner entered with 3 or more workers has retried down to 1
C10_WitnessRetry ==
  entry_ncore >= 3 /\ sim_ncore = 1 /\ Len(attempts) >= 3

\* a launch made by the Runner has just failed with RuntimeError
LaunchFailed ==
  /\ pc = "sim_inflight"
  /\ pc' # pc
  /\ sim_result' \notin {"ok", "exception"}

C12_CancelledOnFailure ==
  [][ (LaunchFailed /\ sim_killed) =>
        /\ sim_result' = "Terminated"
        /\ sim_ncore' = sim_ncore
        /\ attempts' = attempts
        /\ pc' \notin {"sim_loop", "sim_inflight"} ]_vars

\* a cancelled Runner at two or more cores has failed with "Terminated"
C12_TerminatedReached ==
  sim_result = "Terminated" /\ sim_killed /\ sim_ncore >= 2

\* C13: the cleanup calls terminate() on every enumerated process, then
\* kill() on exactly the processes still alive after the first wait, and
\* hands its caller exactly the processes still alive after the second
\* wait, a subset of the enumerated ones.
C13_CleanupSequence ==
  /\ kpc \in {"wait1", "kill", "wait2", "check", "returned", "raised"} =>
       term_called = procs
  /\ kpc \in {"wait2", "check", "returned", "raised"} =>
       kill_called = alive1
  /\ (kpc = "returned" /\ procs # {}) =>
       (running = alive2 /\ running \subseteq procs)

\* the cleanup has returned a survivor after terminate and kill
C13_ReturnedSurvivor ==
  /\ kpc = "returned"
  /\ running # {}
  /\ kill_called = alive1
  /\ term_called = procs

\* C14: in an optimization at most one simulate() call is in flight, and
\* none is while the driver is anywhere else than inside that call: the
\* initial, the objective-evaluation and the confirmation simulations are
\* each created and launched only after the previous one returned or
\* raised.
C14_OneInFlight ==
  is_optimization =>
    /\ inflight <= 1
    /\ pc # "sim_inflight" => inflight = 0

\* the confirmation simulation is in flight after the earlier ones
C14_Witness ==
  /\ is_optimization
  /\ ctx = "final"
  /\ pc = "sim_inflight"
  /\ inflight = 1
  /\ initial_err # NoVal
  /\ best_step_werr # InitialBest

\* C15: get_initial_data creates and runs a SimThread, at full length and
\* with the starting parameters, exactly when sim_data holds no result for
\* the parameter file; this happens at most once, only at the start of the
\* run, and initial_err is set before the first step begins.
C15_InitialSimulation ==
  /\ [][ (pc = "start" /\ pc' # pc) =>
           IF in_sim_data
           THEN pc' = "init_err" /\ UNCHANGED << has_sim, ctx, attempts >>
           ELSE /\ pc' = "sim_created"
                /\ ctx' = "initial"
                /\ simlength' = "None"
                /\ params' = initial_params ]_vars
  /\ [][ (ctx' = "initial" /\ ctx # "initial") => pc = "start" ]_vars
  /\ [](cur_step # NoVal => initial_err # NoVal)
  /\ []((ctx = "initial" /\ InRunner) =>
          /\ cur_step = NoVal
          /\ initial_err = NoVal
          /\ attempts # << >> => launch_params = initial_params)

\* the initial simulation has run and initial_err is about to be recorded
C15_Witness ==
  /\ pc = "init_err"
  /\ ctx = "initial"
  /\ sim_result = "ok"
  /\ attempts # << >>
  /\ cur_step = NoVal

\* a prior result existed: the first step is about to begin with
\* initial_err recorded and no SimThread ever created
C15_WitnessPrior ==
  /\ pc = "step_start"
  /\ step = 0
  /\ ~has_sim
  /\ in_sim_data
  /\ initial_err # NoVal

\* C16: after each scored objective evaluation of a step, best_step_werr
\* is the lowest score of the scored evaluations of that step alone (minf,
\* the lowest value the step's optimizer has seen; every score is below
\* the penalty).
C16_BestPerStep ==
  (pc = "opt_loop" /\ cur_itr >= 1) => best_step_werr = minf

\* in the first step the first scored evaluation is recorded as the best
C16_FirstStepBest ==
  /\ pc = "opt_loop"
  /\ cur_step = 0
  /\ cur_itr = 1
  /\ lastRet = 1
  /\ best_step_werr = 1

\* C17: an objective evaluation whose score is not a new best leaves the
\* parameter values the observers see unchanged.  In the first step the
\* first scored evaluation is at x0 and is always a new best, so after a
\* second evaluation that was scored without a new best the observers
\* still see the starting parameters with the values of x0.
C17_PropagateOnlyOnNewBest ==
  ( /\ pc = "opt_loop"
    /\ cur_step = 0
    /\ numevals = 2
    /\ lastRet # Penalty
    /\ lastTxt # "new best with RMSE" ) =>
      params = update_gui_params(initial_params, OptParams(step_ranges, x0))

\* a second evaluation that did set a new best has propagated its values
C17_NewBestPropagated ==
  /\ pc = "opt_loop"
  /\ cur_step = 0
  /\ numevals = 2
  /\ lastTxt = "new best with RMSE"
  /\ cur_x # x0
  /\ params = update_gui_params(initial_params, OptParams(step_ranges, cur_x))

\* C18: a simulation launched by an objective evaluation runs on the
\* simulator for a duration truncated at the step's end time (opt_end);
\* only the initial and the confirmation simulations run full length.
C18_TruncatedAtStepEnd ==
  pc = "sim_inflight" =>
    /\ ctx = "opt" => launch_len = "opt_end"
    /\ launch_len # "opt_end" => ctx \in {"plain", "initial", "final"}

\* the evaluation's Runner was asked for the truncated length
C18_TruncationRequested ==
  /\ pc = "sim_inflight"
  /\ ctx = "opt"
  /\ simlength = "opt_end"
  /\ cur_itr >= 1

\* C19: while the simulation of an in-bounds objective evaluation is in
\* flight, the parameter set that was handed to simulate() holds, for each
\* searched parameter, the value the optimizer proposed for the evaluation.
C19_SimulateGetsProposal ==
  (ctx = "opt" /\ pc = "sim_inflight") =>
    /\ Len(cur_x) = Len(step_ranges)
    /\ \A k \in 1..Len(step_ranges) :
         launch_params[step_ranges[k].name] = cur_x[k]

\* the second evaluation of a two-parameter step proposes values that
\* differ from the step's initial vector and from the starting parameters
C19_Witness ==
  /\ ctx = "opt"
  /\ pc = "sim_inflight"
  /\ numevals = 2
  /\ Len(cur_x) = 2
  /\ cur_x # x0
  /\ \E k \in 1..2 : /\ cur_x[k] # initial_params[step_ranges[k].name]
                     /\ launch_params[step_ranges[k].name] = cur_x[k]

\* position in ranges of the parameter called n
RangeIndex(ranges, n) == CHOOSE k \in 1..Len(ranges) : ranges[k].name = n

C20_AlignedWithoutDegenerate ==
  /\ pc = "step_start"
  /\ step = cur_step + 1
  /\ step_sims > 0
  /\ Len(step_ranges) = 2
  /\ Len(finals) = 2
  /\ finals[1] # finals[2]
  /\ \A k \in 1..2 : params[step_ranges[k].name] = finals[k]

\* C21: when the 'final' values of a step have been stored, each searched
\* parameter's final is its initial value exactly when the optimized value
\* is less than 1e-9 away from the initial value, whatever the size of the
\* values, and is the optimized value in every other case.
C21_AbsoluteTolerance ==
  fpc = "stored" =>
    \A k \in 1..Len(f_ranges) :
      f_finals[k] = IF Abs(opt_results[k] - f_ranges[k].initial) * AbsTolInv < 1
                    THEN f_ranges[k].initial
                    ELSE opt_results[k]

\* for small values the loop keeps a result that is 1 away from the initial
C21_SmallValuesChanged ==
  /\ fpc = "stored"
  /\ f_ranges[1].initial = 1
  /\ opt_results[1] = 2
  /\ f_finals[1] = 2

\* C22: when a non-skipped step completes (its search has returned and
\* the step loop goes on to the next step or to finalizing), every
\* parameter of the step's ranges has a final value, and the mapping of
\* exactly these parameters to their final values has been written into
\* the shared configuration and given to the optimization dialog.
C22_FinalsPropagated ==
  [][ (pc = "opt_loop" /\ pc' = "step_start") =>
        /\ Len(finals') = Len(step_ranges)
        /\ \A k \in 1..Len(step_ranges) :
             /\ finals'[k] # NoVal
             /\ params'[step_ranges[k].name] = finals'[k]
             /\ step_ranges[k].name \in DOMAIN chunk_ranges'
             /\ chunk_ranges'[step_ranges[k].name] = finals'[k]
        /\ DOMAIN chunk_ranges' = { step_ranges[k].name : k \in 1..Len(step_ranges) }
        /\ \A p \in DOMAIN params \ DOMAIN chunk_ranges' : params'[p] = params[p]
        /\ step' = cur_step + 1 ]_vars

\* a step over one parameter has completed with a final value that
\* differs from the parameter's initial value, and only that parameter
\* was given to the dialog
C22_Witness ==
  /\ pc = "step_start"
  /\ step = cur_step + 1
  /\ step_sims > 0
  /\ Len(step_ranges) = 1
  /\ Len(finals) = 1
  /\ finals[1] # step_ranges[1].initial
  /\ chunk_ranges = [p \in {step_ranges[1].name} |-> finals[1]]
  /\ params[step_ranges[1].name] = finals[1]

\* the second step of a run has completed over another parameter
C22_WitnessSecondStep ==
  /\ pc = "step_start"
  /\ cur_step = 1
  /\ step = 2
  /\ step_sims > 0
  /\ Len(step_ranges) = 2
  /\ Len(finals) = 2
  /\ DOMAIN chunk_ranges = {"a", "b"}

\* C23: the steps are started in the order 0, 1, ..., num_steps-1, each at
\* most once in a run, and final_err is evaluated only when the last step
\* has been completed or skipped and the step loop has ended.
C23_StepsInOrder ==
  /\ [][ cur_step' # cur_step =>
           /\ pc = "step_start"
           /\ cur_step' = (IF cur_step = NoVal THEN 0 ELSE cur_step + 1)
           /\ cur_step' = step
           /\ cur_step' <= NumSteps - 1 ]_vars
  /\ [][ final_err' # final_err =>
           /\ final_err = NoVal
           /\ pc = "step_start"
           /\ step = NumSteps
           /\ cur_step = NumSteps - 1 ]_vars
  /\ [][ step' # step => step' = step + 1 \/ (step = NoVal /\ step' = 0) ]_vars

\* the final error was evaluated after a run in which the first step was
\* completed by a search and the last step has been started
C23_Witness ==
  /\ final_err # NoVal
  /\ cur_step = NumSteps - 1
  /\ step = NumSteps
  /\ Len(finals) >= 1
  /\ pc = "done"

\* C24: within a step the optimizer never makes more than step_sims
\* objective evaluations; every SimThread of the step is created by one
\* of these evaluations, so the simulations run and scored by the step
\* (cur_itr) never exceed step_sims either.
C24_EvaluationsBounded ==
  /\ [](InStep => (numevals <= step_sims /\ cur_itr <= numevals))
  /\ [][ (ctx' = "opt" /\ pc' = "sim_created" /\ pc # "sim_created") =>
           /\ pc = "opt_loop"
           /\ numevals < step_sims
           /\ numevals' = numevals + 1 ]_vars
  /\ [][ cur_itr' > cur_itr => (pc = "score" /\ cur_itr' = cur_itr + 1) ]_vars

\* a step has used all of its evaluations, each with a simulation
C24_Witness ==
  /\ pc = "opt_loop"
  /\ step_sims = MaxSims
  /\ numevals = step_sims
  /\ cur_itr = step_sims

\* C25: when stop() was called on a Runner while one of its launches was
\* in flight, the Runner makes no further launch from the moment the
\* stop's worker cleanup has begun: every later launch would be a retry
\* with fewer workers, whose processes the cleanup has not seen.
C25_NoRetryAfterStop ==
  [][ stopInFlight => ~(pc = "sim_loop" /\ pc' = "sim_inflight") ]_vars

\* the stop set the flag before the killed launch failed: the Runner ends
\* with "Terminated" after a single launch
C25_StoppedInFlight ==
  /\ stopInFlight
  /\ sim_result = "Terminated"
  /\ Len(attempts) = 1
  /\ stopPc = "idle"

\* C26: once a stop request has marked an optimization run as killed,
\* every later cancellation check of the run (the test of self.killed that
\* a Runner makes after a failed launch, before it retries with fewer
\* workers) finds the flag set, also in a Runner that was created or
\* started after the stop.
C26_FlagStaysSet ==
  [][ ( /\ is_optimization
        /\ opt_killed
        /\ LaunchFailed
        /\ ~CannotReduce(sim_ncore) ) => sim_killed ]_vars

\* the flag of the optimizer itself stays set once the stop has set it
C26_OptimizerFlagKept ==
  /\ opt_killed
  /\ stopPc = "idle"
  /\ pc = "sim_inflight"
  /\ ~sim_killed

\* the messages of seq that are equal to m
Count(seq, m) == Cardinality({ i \in 1..Len(seq) : seq[i] = m })

\* C27: a stop request made in any state of an optimization run that is
\* not finished never fails, also when no simulation has been launched
\* yet; when the request has been served, the run is marked killed and
\* the termination message has been emitted.
C27_StopSucceeds ==
  is_optimization =>
    /\ stopPc # "error"
    /\ (stopCalls >= 1 /\ stopPc = "idle") =>
         (opt_killed /\ Count(optDone, "Optimization terminated") >= 1)

\* a stop request during the initial simulation was served
C27_ServedDuringInitial ==
  /\ is_optimization
  /\ ctx = "initial"
  /\ pc = "sim_inflight"
  /\ stopPc = "idle"
  /\ opt_killed
  /\ sim_killed
  /\ optDone = << "Optimization terminated" >>

\* C28: in SimThread.stop and in OptThread.stop the killed flag is set
\* only when the call of _kill_and_check_nrniv_procs made by this stop has
\* returned: the flag of the SimThread first, the flag of the optimizer
\* after it.
C28_CleanupBeforeKilled ==
  /\ [][ (sim_killed' /\ ~sim_killed) =>
           (stopPc = "killed" /\ kpc = "returned") ]_vars
  /\ [][ (opt_killed' /\ ~opt_killed) =>
           (stopPc = "marked" /\ kpc = "returned" /\ sim_killed) ]_vars
  /\ [][ kpc # "returned" => (sim_killed' = sim_killed /\ opt_killed' = opt_killed) ]_vars

\* an optimization was marked killed after a cleanup that had to send
\* kill to a process
C28_Witness ==
  /\ is_optimization
  /\ opt_killed
  /\ sim_killed
  /\ kpc = "returned"
  /\ kill_called # {}
  /\ stopPc = "idle"

\* a plain simulation was marked killed after its cleanup
C28_WitnessPlain ==
  /\ ~is_optimization
  /\ sim_killed
  /\ kpc = "returned"
  /\ term_called # {}
  /\ stopPc = "idle"

\* C29: an optimization run never has two messages on the optimizer's done
\* signal, and when its thread has ended (completed, failed or cancelled)
\* it has exactly one.
C29_OneDoneMessage ==
  is_optimization =>
    /\ Len(optDone) <= 1
    /\ Terminal => Len(optDone) = 1

\* a run that was not stopped and met no error ends with one message
C29_CompletedOnce ==
  /\ is_optimization
  /\ pc = "done"
  /\ stopCalls = 0
  /\ outcome = "accepted"
  /\ optDone = << "" >>

PastInitialRequest ==
  \/ pc \in {"step_start", "opt_setup", "opt_loop", "score", "final_err_get"}
  \/ ctx \in {"opt", "final"}
  \/ outcome # "none"

\* C31: each of the driver's two error requests goes out with a Queue of
\* its own, which never holds more than one value; the driver reads at
\* most once per request and what it reads is what was written for that
\* request; initial_err and final_err are the values read; and the driver
\* is past a request only when the value for it was written and read.
C31_ErrRendezvous ==
  /\ \A q \in ErrRequests : Len(err_queues[q]) <= 1
  /\ (err_chan["initial"] # "none" /\ err_chan["final"] # "none")
       => err_chan["initial"] # err_chan["final"]
  /\ \A r \in ErrRequests :
       /\ Len(err_read[r]) <= 1
       /\ IsPrefix(err_read[r], err_written[r])
  /\ initial_err # NoVal => err_read["initial"] = << initial_err >>
  /\ final_err # NoVal => err_read["final"] = << final_err >>
  /\ PastInitialRequest =>
       /\ Len(err_written["initial"]) = 1
       /\ err_read["initial"] = err_written["initial"]
       /\ initial_err # NoVal
  /\ outcome # "none" =>
       /\ Len(err_written["final"]) = 1
       /\ err_read["final"] = err_written["final"]
       /\ final_err # NoVal

\* an accepted run whose two requests were answered with different values,
\* each read from its own queue, both queues empty again
C31_Witness ==
  /\ pc = "done"
  /\ outcome = "accepted"
  /\ err_written["initial"] = << 1 >>
  /\ err_written["final"] = << 0 >>
  /\ initial_err = 1
  /\ final_err = 0
  /\ err_chan["initial"] # err_chan["final"]
  /\ \A q \in ErrRequests : err_queues[q] = << >>

\* the driver waits at the request for the final error: the request is
\* out, nothing has been written, final_err is not assigned
C31_WitnessWaiting ==
  /\ pc = "final_err_get"
  /\ Len(err_pending) = 1
  /\ err_queues[err_queue] = << >>
  /\ final_err = NoVal

\* the text of a retry message that states n workers
RetryMessage(n) ==
  "INFO: Failed starting simulation, retrying with "
    \o ToString(n) \o " cores"

\* a step in which a launch of the Runner fails with RuntimeError
LaunchFails ==
  /\ pc = "sim_inflight"
  /\ pc' # "sim_inflight"
  /\ sim_result' \notin {"ok", "exception"}

\* C32: when a launch with more than 1 worker fails and the Runner has not
\* seen a cancellation, the Runner goes on to a retry and sends exactly one
\* progress message, which states the halved worker count; the Runner
\* retries in no other case; and when the next launch begins, that message
\* is the last one sent and the Runner has sent one message per failed
\* launch.
C32_RetryAnnounced ==
  [][ /\ (LaunchFails /\ sim_ncore > 1 /\ ~sim_killed) =>
           /\ pc' = "sim_loop"
           /\ sim_ncore' = CeilHalf(sim_ncore)
           /\ sim_msgs' = sim_msgs + 1
           /\ lastTxt' = RetryMessage(CeilHalf(sim_ncore))
      /\ (pc = "sim_inflight" /\ pc' = "sim_loop") =>
           (sim_ncore > 1 /\ ~sim_killed)
      /\ (pc = "sim_loop" /\ pc' = "sim_inflight" /\ Len(attempts) >= 1) =>
           /\ sim_msgs = Len(attempts)
           /\ lastTxt = RetryMessage(sim_ncore)
           /\ sim_msgs' = sim_msgs
           /\ lastTxt' = lastTxt
    ]_vars

\* the Runner entered with the largest worker count is in its third
\* launch: two retries were announced, the last one with 2 workers
C32_Witness ==
  /\ pc = "sim_inflight"
  /\ attempts = << MaxCores, CeilHalf(MaxCores), CeilHalf(CeilHalf(MaxCores)) >>
  /\ sim_msgs = 2
  /\ lastTxt = RetryMessage(CeilHalf(CeilHalf(MaxCores)))
  /\ lastTxt = "INFO: Failed starting simulation, retrying with 2 cores"

\* a retry was announced while a stop() call was between its cleanup and
\* its "self.killed = True"
C32_WitnessDuringStop ==
  /\ pc = "sim_loop"
  /\ stopPc = "killed"
  /\ sim_msgs = 1
  /\ lastTxt = RetryMessage(sim_ncore)

\* C33: no step of a run changes the driver's worker count, a SimThread
\* is created with that count whatever the one before it ended with, and
\* the first launch of every SimThread is made with it.
C33_ReductionNotCarried ==
  /\ [][ncore' = ncore]_vars
  /\ []( /\ pc = "sim_created" => sim_ncore = ncore
         /\ (has_sim /\ Len(attempts) >= 1) =>
              (attempts[1] = ncore /\ entry_ncore = ncore) )

\* an objective evaluation has created its SimThread with the 2 workers of
\* the driver, after a SimThread of the run that had come down to 1 worker
C33_Witness ==
  /\ is_optimization
  /\ pc = "sim_created"
  /\ ctx = "opt"
  /\ ncore = 2
  /\ prev_ncore = 1
  /\ sim_ncore = 2
  /\ attempts = << >>

\* a later SimThread of the run is in its first launch, with the driver's
\* worker count, and is not the first SimThread of its step's search
C33_WitnessLaunched ==
  /\ is_optimization
  /\ pc = "sim_inflight"
  /\ ctx = "opt"
  /\ numevals = 2
  /\ ncore = 2
  /\ attempts = << 2 >>

\* run() of a plain SimThread has ended, by a return or by an exception
PlainRunEnded == ~is_optimization /\ pc \in {"done", "crashed"}

\* what the claim says of a run that succeeded or ended with a Runner
\* failure, and of a successful run inside an optimization
C34_StatedCases ==
  /\ (PlainRunEnded /\ sim_result = "ok") =>
       /\ sim_emits = << "result", "params", "done" >>
       /\ sim_done = << "" >>
  /\ (PlainRunEnded /\ sim_result \in RunnerFailures) =>
       /\ sim_emits = << "done" >>
       /\ sim_done = << sim_result >>
  /\ (is_optimization /\ sim_result = "ok") =>
       /\ sim_emits = << "result" >>
       /\ sim_done = << >>

\* C34: when run() of a plain SimThread has ended, exactly one done message
\* has been emitted: after a success the result, the parameters and an
\* empty done message were emitted, in this order; otherwise only a done
\* message with the text of the Runner's failure.  A successful run inside
\* an optimization has emitted the result and no done message.
C34_OneDoneMessage ==
  /\ PlainRunEnded => Len(sim_done) = 1
  /\ (PlainRunEnded /\ sim_result # "ok") => sim_result \in RunnerFailures
  /\ C34_StatedCases

\* a plain run that succeeded after a retry, with its three signals
C34_PlainSuccess ==
  /\ PlainRunEnded
  /\ sim_result = "ok"
  /\ Len(attempts) = 2
  /\ sim_emits = << "result", "params", "done" >>

\* a plain run ended by an exception of simulate() that is no
\* RuntimeError: nothing was emitted
C34_EndedSilently ==
  /\ PlainRunEnded
  /\ sim_result = "exception"
  /\ sim_emits = << >>
  /\ sim_done = << >>

====
